---- MODULE Spec2Model ----
(***************************************************************************)
(* Model of typed-html/src/output/yew.rs: the Yew output adapter.          *)
(*                                                                         *)
(* State: the Events containers that input elements borrow (&mut Events),  *)
(* the VTags used as event targets, and the outcome of the latest call.    *)
(* Operations: assigning a handler built from a closure (From<F>),         *)
(* BoxedListener::attach, Yew::install_handlers and Yew::to_yew_html.      *)
(* Calls are sequential: a call leaves its outcome in `last` until the     *)
(* caller takes it (Return).  A panic (Option::unwrap on None) ends the    *)
(* run: no action is enabled afterwards.                                   *)
(***************************************************************************)
EXTENDS Integers, Sequences, FiniteSets, TLC

VARIABLES events, tags, nextId, last

vars == <<events, tags, nextId, last>>

----------------------------------------------------------------------------
(* Bounds of the model *)

NumContainers == 1
NumTargets == 1
MaxListeners == 2
MaxAttrs == 2
MaxChildren == 2

Containers == 1..NumContainers
Targets == 1..NumTargets

(* The inputs a caller can supply *)
Closures == {"inc", "neg"}
EventValues == {1, 2}
Names == {"div", "span"}
Texts == {"hi", "<b>"}
AttrPairs == {<<"id", "a">>, <<"id", "b">>, <<"class", "a">>}

SeqsUpTo(S, n) == UNION {[1..k -> S] : k \in 0..n}

----------------------------------------------------------------------------
(* Option<T>: None is the empty sequence, Some(x) the one-element sequence *)

None == << >>
Some(x) == <<x>>
IsSome(o) == o # << >>
IsNone(o) == o = << >>
Unwrap(o) == o[1]

----------------------------------------------------------------------------
(* declare_events_yew! { blur: onblur, change: onchange, click: onclick, } *)

EventTable == << [name |-> "blur",   action |-> "onblur"],
                 [name |-> "change", action |-> "onchange"],
                 [name |-> "click",  action |-> "onclick"] >>

TableIdx == 1..Len(EventTable)

(* the $name identifiers, in declaration order *)
EventNames == [i \in TableIdx |-> EventTable[i].name]

EventFields == {EventTable[i].name : i \in TableIdx}

(* the framework event types html::$action::Event *)
EventTypes == {EventTable[i].action : i \in TableIdx}

(* the type parameter of the handler stored in field $name *)
EventOf(name) == EventTable[CHOOSE i \in TableIdx : EventTable[i].name = name].action

(* faulty variant: EVENT_TYPE = stringify!($action) *)
EVENT_TYPE_action(action) == action

(* impl ConcreteEvent for html::$action::Event: EVENT_TYPE = stringify!($name) *)
EVENT_TYPE(action) ==
    EventTable[CHOOSE i \in TableIdx : EventTable[i].action = action].name

(* Default for Events: every field None *)
EventsDefault == [n \in EventFields |-> None]

----------------------------------------------------------------------------
(* Closures F: Fn(Event) -> COMP::Message supplied by the caller *)

Call(f, e) == IF f = "inc" THEN e + 1 ELSE 0 - e

(* html::$action::Wrapper::from(f): a Listener of kind $action holding f.  *)
(* id names the heap allocation of the Box<dyn Listener>: its number and   *)
(* the closure the caller passed to From<F>.                               *)
WrapperFrom(action, f, id) == [id |-> id, kind |-> action, f |-> f]

(* Listener::handle of the wrapper: the component message for event e *)
Handle(listener, e) == Call(listener.f, e)

(* faulty variant: the wrapper is built from another closure *)
From_F_other(action, f, id) ==
    [slot |-> Some(WrapperFrom(action, CHOOSE g \in Closures : g # f, id)), E |-> action]

(* From<F> for BoxedListener<COMP, html::$action::Event> *)
From_F(action, f, id) == [slot |-> Some(WrapperFrom(action, f, id)), E |-> action]

(* From<F> for Box<dyn EventHandler<Yew<COMP>, html::$action::Event>> *)
BoxFrom_F(action, f, id) == From_F(action, f, id)

----------------------------------------------------------------------------
(* VTag, VText of the framework *)

VTagNew(name) ==
    [kind |-> "VTag", tag |-> name, attributes |-> << >>, listeners |-> << >>, childs |-> << >>]

VTextNew(text) == [kind |-> "VText", text |-> text]

add_listener(target, listener) ==
    [target EXCEPT !.listeners = Append(@, listener)]

(* faulty variant: the listener is added without being taken from the slot *)
attach_keep(self, target) ==
    [ panic  |-> IsNone(self.slot),
      self   |-> self,
      target |-> IF IsNone(self.slot) THEN target
                 ELSE add_listener(target, Unwrap(self.slot)) ]

(* BoxedListener::attach: self.0.take().unwrap(), then target.add_listener *)
attach(self, target) ==
    [ panic  |-> IsNone(self.slot),
      self   |-> [self EXCEPT !.slot = None],
      target |-> IF IsNone(self.slot) THEN target
                 ELSE add_listener(target, Unwrap(self.slot)) ]

(* for_events_yew!: one `if let Some(ref mut handler) = events.$name` per  *)
(* table entry, in order; a panic in the body ends the iteration.          *)
RECURSIVE for_events_yew(_, _)
for_events_yew(order, st) ==
    IF order = << >> \/ st.panic THEN st
    ELSE LET name == Head(order)
             field == st.handlers[name]
         IN IF IsNone(field) THEN for_events_yew(Tail(order), st)
            ELSE LET r == attach(Unwrap(field), st.target)
                 IN for_events_yew(Tail(order),
                        [ target   |-> r.target,
                          handlers |-> [st.handlers EXCEPT ![name] = Some(r.self)],
                          calls    |-> Append(st.calls, name),
                          panic    |-> r.panic ])

(* faulty variant: the fields are visited in reverse order *)
install_handlers_rev(target, handlers) ==
    for_events_yew(<<"click", "change", "blur">>,
        [target |-> target, handlers |-> handlers, calls |-> << >>, panic |-> FALSE])

(* faulty variant: the fields are visited twice *)
install_handlers_twice(target, handlers) ==
    LET s == for_events_yew(EventNames,
                [target |-> target, handlers |-> handlers, calls |-> << >>, panic |-> FALSE])
    IN for_events_yew(EventNames, s)

(* Yew::install_handlers *)
install_handlers(target, handlers) ==
    for_events_yew(EventNames,
        [target |-> target, handlers |-> handlers, calls |-> << >>, panic |-> FALSE])

----------------------------------------------------------------------------
(* element.attributes.into_iter().map(|(k, v)| (k.to_owned(), v)).collect() *)
(* into the tag's attribute map: a later pair replaces an earlier one with  *)
(* the same key.                                                            *)

AttrKeys(attrs) == {attrs[i][1] : i \in 1..Len(attrs)}

LastIndexOf(attrs, k) ==
    CHOOSE i \in 1..Len(attrs) :
        /\ attrs[i][1] = k
        /\ \A j \in 1..Len(attrs) : attrs[j][1] = k => j <= i

FirstIndexOf(attrs, k) ==
    CHOOSE i \in 1..Len(attrs) :
        /\ attrs[i][1] = k
        /\ \A j \in 1..Len(attrs) : attrs[j][1] = k => j >= i

(* faulty variant: an earlier pair wins over a later one with the same key *)
collect_first(attrs) == [k \in AttrKeys(attrs) |-> attrs[FirstIndexOf(attrs, k)][2]]

collect(attrs) == [k \in AttrKeys(attrs) |-> attrs[LastIndexOf(attrs, k)][2]]

(* faulty variant: the handlers are not installed *)
to_yew_html_noinstall(vnode, handlers) ==
    IF vnode.kind = "Text" \/ vnode.kind = "UnsafeText"
    THEN [panic |-> FALSE, node |-> Some(VTextNew(vnode.text)),
          handlers |-> handlers, calls |-> << >>]
    ELSE [panic |-> FALSE,
          node |-> Some([VTagNew(vnode.name) EXCEPT !.attributes = collect(vnode.attributes)]),
          handlers |-> handlers, calls |-> << >>]

(* Yew::to_yew_html; handlers is the Events the element borrows *)
to_yew_html(vnode, handlers) ==
    IF vnode.kind = "Text" \/ vnode.kind = "UnsafeText"
    THEN [panic |-> FALSE, node |-> Some(VTextNew(vnode.text)),
          handlers |-> handlers, calls |-> << >>]
    ELSE LET tag0 == [VTagNew(vnode.name) EXCEPT !.attributes = collect(vnode.attributes)]
             r == install_handlers(tag0, handlers)
         IN [panic |-> r.panic,
             node |-> IF r.panic THEN None ELSE Some(r.target),
             handlers |-> r.handlers, calls |-> r.calls]

----------------------------------------------------------------------------
(* Input trees (crate::dom::VNode): Text, UnsafeText and Element; an        *)
(* Element borrows one Events container exclusively.                        *)

TextNodes == {[kind |-> k, text |-> t] : k \in {"Text", "UnsafeText"}, t \in Texts}

AttrLists == SeqsUpTo(AttrPairs, MaxAttrs)

LeafElements(c) ==
    {[kind |-> "Element", name |-> "span", attributes |-> << >>, events |-> d, children |-> << >>] :
        d \in Containers \ {c}}

ChildNodes(c) == {[kind |-> "Text", text |-> "hi"]} \cup LeafElements(c)

DistinctBorrows(ch) ==
    \A i, j \in 1..Len(ch) :
        (i # j /\ ch[i].kind = "Element" /\ ch[j].kind = "Element") => ch[i].events # ch[j].events

ChildLists(c) == {ch \in SeqsUpTo(ChildNodes(c), MaxChildren) : DistinctBorrows(ch)}

ElementsBorrowing(c) ==
    {[kind |-> "Element", name |-> n, attributes |-> a, events |-> c, children |-> ch] :
        n \in Names, a \in AttrLists, ch \in ChildLists(c)}

ElementNodes == UNION {ElementsBorrowing(c) : c \in Containers}

(* elements that carry nothing but their name and their Events *)
PlainElements ==
    {[kind |-> "Element", name |-> n, attributes |-> << >>, events |-> c, children |-> << >>] :
        n \in Names, c \in Containers}

----------------------------------------------------------------------------
(* The state machine *)

NoCall == [op |-> "init", vnode |-> None, c |-> 0, t |-> 0, name |-> "", f |-> "",
           calls |-> << >>, panic |-> FALSE, result |-> None]

Init ==
    /\ events = [c \in Containers |-> EventsDefault]
    /\ tags = [t \in Targets |-> VTagNew("div")]
    /\ nextId = 1
    /\ last = NoCall

(* no call is pending: the caller is between two calls *)
Idle == last = NoCall

(* events.$name = Some(f.into()) *)
SetHandler(c, name, f) ==
    /\ Idle
    /\ nextId <= MaxListeners
    /\ events' = [events EXCEPT ![c][name] =
                      Some(BoxFrom_F(EventOf(name), f, [n |-> nextId, of |-> f]))]
    /\ nextId' = nextId + 1
    /\ last' = [NoCall EXCEPT !.op = "set", !.c = c, !.name = name, !.f = f]
    /\ UNCHANGED tags

(* handler.attach(target) on the handler stored in events[c].$name *)
Attach(c, name, t) ==
    /\ Idle
    /\ IsSome(events[c][name])
    /\ LET r == attach(Unwrap(events[c][name]), tags[t])
       IN /\ events' = [events EXCEPT ![c][name] = Some(r.self)]
          /\ tags' = [tags EXCEPT ![t] = r.target]
          /\ last' = [NoCall EXCEPT !.op = "attach", !.c = c, !.t = t, !.name = name,
                                    !.calls = <<name>>, !.panic = r.panic]
    /\ UNCHANGED nextId

(* Yew::install_handlers(&mut tags[t], &mut events[c]) *)
InstallHandlers(t, c) ==
    /\ Idle
    /\ LET r == install_handlers(tags[t], events[c])
       IN /\ events' = [events EXCEPT ![c] = r.handlers]
          /\ tags' = [tags EXCEPT ![t] = r.target]
          /\ last' = [NoCall EXCEPT !.op = "install_handlers", !.c = c, !.t = t,
                                    !.calls = r.calls, !.panic = r.panic]
    /\ UNCHANGED nextId

(* Yew::to_yew_html(vnode) *)
ToYewHtml(vnode) ==
    /\ Idle
    /\ LET c == IF vnode.kind = "Element" THEN vnode.events ELSE 0
           r == to_yew_html(vnode, IF c = 0 THEN EventsDefault ELSE events[c])
       IN /\ events' = IF c = 0 THEN events ELSE [events EXCEPT ![c] = r.handlers]
          /\ last' = [NoCall EXCEPT !.op = "to_yew_html", !.vnode = Some(vnode), !.c = c,
                                    !.calls = r.calls, !.panic = r.panic, !.result = r.node]
    /\ UNCHANGED <<tags, nextId>>

(* the call returned normally and the caller goes on *)
Return ==
    /\ last # NoCall
    /\ ~last.panic
    /\ last' = NoCall
    /\ UNCHANGED <<events, tags, nextId>>

Next ==
    \/ \E c \in Containers, name \in EventFields, f \in Closures : SetHandler(c, name, f)
    \/ \E c \in Containers, name \in EventFields, t \in Targets : Attach(c, name, t)
    \/ \E t \in Targets, c \in Containers : InstallHandlers(t, c)
    \/ \E vnode \in TextNodes \cup PlainElements : ToYewHtml(vnode)
    \/ Return

(* The event machinery: handlers are assigned, attached and installed, and *)
(* text nodes and plain elements are converted.                            *)
Spec == Init /\ [][Next]_vars

(* The tree conversion on its own: every input tree within the bounds is   *)
(* converted, starting from Events containers that are default or have a   *)
(* click handler assigned.                                                 *)
ClickAssigned(c) ==
    [EventsDefault EXCEPT !.click =
        Some(BoxFrom_F(EventOf("click"), "inc", [n |-> c, of |-> "inc"]))]

InitTree ==
    /\ events \in [Containers -> {EventsDefault} \cup {ClickAssigned(c) : c \in Containers}]
    /\ \A c \in Containers : events[c] \in {EventsDefault, ClickAssigned(c)}
    /\ tags = [t \in Targets |-> VTagNew("div")]
    /\ nextId = NumContainers + 1
    /\ last = NoCall

NextTree ==
    \/ \E vnode \in TextNodes \cup ElementNodes : ToYewHtml(vnode)
    \/ Return

SpecTree == InitTree /\ [][NextTree]_vars

----------------------------------------------------------------------------
(* Properties *)

Called(op) == last.op = op
Returned(op) == last.op = op /\ ~last.panic

(* the set fields of an Events container, in the order blur, change, click *)
SetInOrder(ev) == SelectSeq(<<"blur", "change", "click">>, LAMBDA n : IsSome(ev[n]))

(* a set handler whose listener has been taken *)
Spent(field) == IsSome(field) /\ IsNone(Unwrap(field).slot)
Fresh(field) == IsSome(field) /\ IsSome(Unwrap(field).slot)

(* the listeners installed on the tag returned by the latest to_yew_html *)
ResultListeners ==
    IF Returned("to_yew_html") /\ Unwrap(last.result).kind = "VTag"
    THEN Unwrap(last.result).listeners
    ELSE << >>

(* no listener is installed twice: not on one tag, not on two *)
InstalledOnce ==
    /\ \A t1, t2 \in Targets :
          \A i \in 1..Len(tags[t1].listeners), j \in 1..Len(tags[t2].listeners) :
              tags[t1].listeners[i].id.n = tags[t2].listeners[j].id.n => (t1 = t2 /\ i = j)
    /\ \A i, j \in 1..Len(ResultListeners) :
          ResultListeners[i].id.n = ResultListeners[j].id.n => i = j
    /\ \A t \in Targets :
          \A i \in 1..Len(tags[t].listeners), j \in 1..Len(ResultListeners) :
              tags[t].listeners[i].id.n # ResultListeners[j].id.n

(* C1: for every input Element the VTag returned by to_yew_html has one    *)
(* translated child per child of the input, in the same order.             *)
ChildTranslated(out, in) ==
    IF in.kind = "Element"
    THEN out.kind = "VTag" /\ out.tag = in.name
    ELSE out.kind = "VText" /\ out.text = in.text

C1_ChildrenTranslated ==
    (Returned("to_yew_html") /\ Unwrap(last.vnode).kind = "Element") =>
        LET in == Unwrap(last.vnode)
            out == Unwrap(last.result)
        IN /\ Len(out.childs) = Len(in.children)
           /\ \A i \in 1..Len(in.children) : ChildTranslated(out.childs[i], in.children[i])

(* C2: the VTag returned by to_yew_html for an Element carries the         *)
(* listener of every set handler of the element's Events exactly once, and *)
(* no listener for an event whose field is None.                           *)
C2_Step ==
    (last'.op = "to_yew_html" /\ ~last'.panic /\ Unwrap(last'.vnode).kind = "Element") =>
        LET ev == events[last'.c]
            ls == Unwrap(last'.result).listeners
        IN /\ \A name \in {"blur", "change", "click"} :
                IF IsSome(ev[name])
                THEN Cardinality({i \in 1..Len(ls) : ls[i] = Unwrap(Unwrap(ev[name]).slot)}) = 1
                ELSE \A i \in 1..Len(ls) : ls[i].kind # EventOf(name)
           /\ Len(ls) = Len(SetInOrder(ev))

C2_ListenersWired == [][C2_Step]_vars

C2_Witness ==
    /\ Returned("to_yew_html")
    /\ Unwrap(last.vnode).kind = "Element"
    /\ Len(Unwrap(last.result).listeners) = 2

(* C3: the Events container has exactly the fields blur, change, click;    *)
(* the EVENT_TYPE of the event type bound to a field is the field's name;  *)
(* no two fields share an event type, no two event types an EVENT_TYPE.    *)
C3_EventTable ==
    /\ \A c \in Containers :
        /\ DOMAIN events[c] = {"blur", "change", "click"}
        /\ \A name \in DOMAIN events[c] :
              IsSome(events[c][name]) => EVENT_TYPE(Unwrap(events[c][name]).E) = name
    /\ EVENT_TYPE("onblur") = "blur"
    /\ EVENT_TYPE("onchange") = "change"
    /\ EVENT_TYPE("onclick") = "click"
    /\ \A n1, n2 \in EventFields : EventOf(n1) = EventOf(n2) => n1 = n2
    /\ \A a1, a2 \in EventTypes : EVENT_TYPE(a1) = EVENT_TYPE(a2) => a1 = a2

C3_Witness ==
    \E c \in Containers : Len(SetInOrder(events[c])) = 2

(* C4 as stated: a text node keeps its text, a VTag keeps the element's    *)
(* name, and its attribute map has key -> value for every (key, value)     *)
(* pair of the input and no other key.                                     *)
C4_ContentUnchanged ==
    Returned("to_yew_html") =>
        LET in == Unwrap(last.vnode)
            out == Unwrap(last.result)
        IN IF in.kind = "Element"
           THEN /\ out.kind = "VTag"
                /\ out.tag = in.name
                /\ \A i \in 1..Len(in.attributes) :
                      /\ in.attributes[i][1] \in DOMAIN out.attributes
                      /\ out.attributes[in.attributes[i][1]] = in.attributes[i][2]
                /\ \A k \in DOMAIN out.attributes :
                      \E i \in 1..Len(in.attributes) : in.attributes[i][1] = k
           ELSE out.kind = "VText" /\ out.text = in.text

(* C4 amended: as C4, but a key that occurs in several pairs of the input  *)
(* maps to the value of the last pair with that key.                       *)
C4_ContentLastWins ==
    Returned("to_yew_html") =>
        LET in == Unwrap(last.vnode)
            out == Unwrap(last.result)
        IN IF in.kind = "Element"
           THEN /\ out.kind = "VTag"
                /\ out.tag = in.name
                /\ \A i \in 1..Len(in.attributes) :
                      /\ in.attributes[i][1] \in DOMAIN out.attributes
                      /\ (\A j \in 1..Len(in.attributes) :
                              in.attributes[j][1] = in.attributes[i][1] => j <= i)
                         => out.attributes[in.attributes[i][1]] = in.attributes[i][2]
                /\ \A k \in DOMAIN out.attributes :
                      \E i \in 1..Len(in.attributes) : in.attributes[i][1] = k
           ELSE out.kind = "VText" /\ out.text = in.text

C4_Witness ==
    /\ Returned("to_yew_html")
    /\ Unwrap(last.vnode).kind = "Element"
    /\ \E i, j \in 1..Len(Unwrap(last.vnode).attributes) :
          /\ i < j
          /\ Unwrap(last.vnode).attributes[i][1] = Unwrap(last.vnode).attributes[j][1]
          /\ Unwrap(last.vnode).attributes[i][2] # Unwrap(last.vnode).attributes[j][2]

(* C5: a handler built from a closure f starts with its listener present,  *)
(* and attach installs on the target the wrapper of that same f: firing    *)
(* an event e on it yields f(e).                                           *)
C5_Step ==
    /\ last'.op = "set" =>
          LET h == Unwrap(events'[last'.c][last'.name])
          IN /\ IsSome(h.slot)
             /\ \A e \in EventValues :
                   Handle(Unwrap(h.slot), e) = Call(last'.f, e)
    /\ (last'.op = "attach" /\ ~last'.panic) =>
          LET l == Unwrap(Unwrap(events[last'.c][last'.name]).slot)
          IN /\ tags'[last'.t].listeners = Append(tags[last'.t].listeners, l)
             /\ \A e \in EventValues : Handle(l, e) = Call(l.id.of, e)

C5_ClosurePreserved == [][C5_Step]_vars

C5_Witness ==
    /\ Returned("attach")
    /\ Len(tags[last.t].listeners) >= 1
    /\ \E e \in EventValues :
          Handle(tags[last.t].listeners[Len(tags[last.t].listeners)], e) = 0 - e

(* C6: install_handlers visits the fields in the order blur, change,       *)
(* click; it calls attach once on each set field and skips each None       *)
(* field, so a call that returns has appended the listeners of the set     *)
(* fields in that order; a call cut short by a panic has visited a prefix  *)
(* of them.  The tag's name and attributes are never changed, and with a   *)
(* default Events the tag is left as it was.                               *)
C6_Step ==
    last'.op = "install_handlers" =>
        LET ev == events[last'.c]
            before == tags[last'.t]
            after == tags'[last'.t]
            order == SetInOrder(ev)
        IN /\ Len(last'.calls) <= Len(order)
           /\ last'.calls = SubSeq(order, 1, Len(last'.calls))
           /\ ~last'.panic =>
                 /\ last'.calls = order
                 /\ after.listeners =
                       before.listeners \o
                       [i \in 1..Len(order) |-> Unwrap(Unwrap(ev[order[i]]).slot)]
           /\ after.tag = before.tag
           /\ after.attributes = before.attributes
           /\ after.childs = before.childs
           /\ ev = EventsDefault => (~last'.panic /\ tags' = tags /\ events' = events)

C6_InstallOrder == [][C6_Step]_vars

C6_Witness ==
    /\ Returned("install_handlers")
    /\ Len(last.calls) = 2
    /\ Len(tags[last.t].listeners) = 2

(* C7: no listener is ever installed twice, on one target or on two;       *)
(* attach empties the handler's slot while the Events field stays Some; a  *)
(* second attach on a handler, or an install_handlers on an Events whose   *)
(* set handlers have all been attached, panics at the first set handler    *)
(* and adds no listener.                                                   *)
C7_Step ==
    /\ InstalledOnce'
    /\ last'.op = "attach" =>
          /\ IsSome(events'[last'.c][last'.name])
          /\ IsNone(Unwrap(events'[last'.c][last'.name]).slot)
          /\ Spent(events[last'.c][last'.name]) => (last'.panic /\ tags' = tags)
    /\ last'.op = "install_handlers" =>
          LET ev == events[last'.c]
              order == SetInOrder(ev)
          IN /\ \A i \in 1..Len(last'.calls) :
                   Spent(events'[last'.c][last'.calls[i]])
             /\ (order # << >> /\ \A n \in DOMAIN ev : IsSome(ev[n]) => Spent(ev[n])) =>
                   /\ last'.panic
                   /\ last'.calls = <<order[1]>>
                   /\ tags' = tags

C7_HandedOffOnce == [][C7_Step]_vars

C7_Witness ==
    /\ Called("install_handlers")
    /\ last.panic
    /\ Len(tags[last.t].listeners) >= 1

(* C8: to_yew_html on a Text or UnsafeText, or on an Element none of whose *)
(* handlers has been attached before, does not panic and returns exactly   *)
(* one node.                                                               *)
C8_Step ==
    (/\ last'.op = "to_yew_html"
     /\ Unwrap(last'.vnode).kind = "Element" =>
           \A n \in EventFields :
               IsSome(events[last'.c][n]) => Fresh(events[last'.c][n]))
    => (~last'.panic /\ Len(last'.result) = 1)

C8_TotalOnFresh == [][C8_Step]_vars

C8_Witness ==
    /\ Returned("to_yew_html")
    /\ Unwrap(last.vnode).kind = "Element"
    /\ last.calls # << >>
    /\ Len(last.result) = 1

====
